---- MODULE Spec2Model ----
(***************************************************************************)
(* Model of src/commands/analyze_sourcemaps.rs: the `execute` command that *)
(* fetches a page, extracts its scripts, resolves and validates each       *)
(* script's sourcemap and finally correlates the result with local files.  *)
(*                                                                         *)
(* The HTTP client, the HTML parser, the sourcemap codec, the minification *)
(* classifier and the directory walker are the environment: every answer   *)
(* they can give is a nondeterministic input of the step that asks.        *)
(***************************************************************************)
EXTENDS Naturals, Sequences, FiniteSets

\* Bounds of the model.
MaxScripts == 2     \* top-level nodes of the fetched document
MaxSources == 2     \* source entries of a decoded sourcemap
MaxEntries == 2     \* directory entries yielded by the walk

----------------------------------------------------------------------------
\* URLs and references.  A URL is a host and a path (sequence of segments);
\* a reference is what appears in a `src` attribute, a header or a pragma.

Url(h, p) == [host |-> h, path |-> p]
NoUrl == Url("", <<>>)

NoRef == [kind |-> "none", host |-> "", path |-> <<>>]
BadRef == [kind |-> "bad", host |-> "", path |-> <<>>]
Rel(p) == [kind |-> "rel", host |-> "", path |-> p]
Abs(h, p) == [kind |-> "abs", host |-> h, path |-> p]

Front(s) == SubSeq(s, 1, Len(s) - 1)

\* Url::join: an absolute reference replaces the base, a relative one
\* replaces the last path segment of the base, a malformed one is an error.
UrlJoin(base, ref) ==
    IF ref.kind = "abs" THEN [ok |-> TRUE, url |-> Url(ref.host, ref.path)]
    ELSE IF ref.kind = "rel"
         THEN [ok |-> TRUE, url |-> Url(base.host, Front(base.path) \o ref.path)]
         ELSE [ok |-> FALSE, url |-> NoUrl]

\* The page given on the command line (already parsed, line 161).
PageUrl == Url("example.com", <<"index.html">>)

\* The `src` values that occur in the documents of the model.
AppSrc == Rel(<<"static", "app.js">>)
CdnSrc == Abs("cdn.js.com", <<"lib.js">>)
Srcs == {AppSrc, CdnSrc, BadRef}

\* A mutation of the allowlist: one host is misspelt.
is_community_cdn_url_typo(url) ==
    \/ url.host = "ssl.google-analytics.com"
    \/ url.host = "cdnjs.com"
    \/ url.host = "ajax.googleapis.com"
    \/ url.host = "cdn.ravenjs.com"
    \/ url.host = "cdn.jsdelivr.net"

is_community_cdn_url(url) ==
    \/ url.host = "ssl.google-analytics.com"
    \/ url.host = "cdn.js.com"
    \/ url.host = "ajax.googleapis.com"
    \/ url.host = "cdn.ravenjs.com"
    \/ url.host = "cdn.jsdelivr.net"

----------------------------------------------------------------------------
\* The parsed document and find_scripts.

Attr(n, v) == [name |-> n, value |-> v]
Script(attrs) == [kind |-> "Element", name |-> "script", attrs |-> attrs,
                  children |-> <<>>]
TextNode == [kind |-> "Text", name |-> "", attrs |-> <<>>, children |-> <<>>]
Div(children) == [kind |-> "Element", name |-> "div", attrs |-> <<>>,
                  children |-> children]
DocumentNode(children) == [kind |-> "Document", name |-> "", attrs |-> <<>>,
                           children |-> children]

\* Nodes that can appear below the document root.
TopNodes ==
    {Script(<<Attr("src", s)>>) : s \in Srcs}
      \cup {Script(<<Attr("type", NoRef)>>),
            TextNode,
            Div(<<TextNode, Script(<<Attr("src", AppSrc)>>)>>)}

RECURSIVE SeqsUpTo(_, _)
SeqsUpTo(S, n) ==
    IF n = 0 THEN {<<>>}
    ELSE LET shorter == SeqsUpTo(S, n - 1)
         IN  shorter \cup {Append(s, x) : s \in shorter, x \in S}

Documents == {DocumentNode(c) : c \in SeqsUpTo(TopNodes, MaxScripts)}

\* Lines 44-48: every `src` attribute of a script element is joined and
\* pushed; a join error leaves the scan.
RECURSIVE ScanAttrs(_, _, _)
ScanAttrs(attrs, url, rv) ==
    IF attrs = <<>> THEN [ok |-> TRUE, rv |-> rv]
    ELSE IF Head(attrs).name = "src"
         THEN LET j == UrlJoin(url, Head(attrs).value)
              IN  IF j.ok THEN ScanAttrs(Tail(attrs), url, Append(rv, j.url))
                  ELSE [ok |-> FALSE, rv |-> rv]
         ELSE ScanAttrs(Tail(attrs), url, rv)

RECURSIVE scan(_, _, _)
RECURSIVE ScanChildren(_, _, _)
\* Lines 50-52 and 56-58: the children in order, stopping at the first error.
ScanChildren(children, url, rv) ==
    IF children = <<>> THEN [ok |-> TRUE, rv |-> rv]
    ELSE LET r == scan(Head(children), url, rv)
         IN  IF r.ok THEN ScanChildren(Tail(children), url, r.rv) ELSE r

scan(node, url, rv) ==
    IF node.kind = "Element"
    THEN IF node.name = "script"
         THEN ScanAttrs(node.attrs, url, rv)
         ELSE ScanChildren(node.children, url, rv)
    ELSE IF node.kind = "Document"
         THEN ScanChildren(node.children, url, rv)
         ELSE [ok |-> TRUE, rv |-> rv]

find_scripts(url, handle) == scan(handle, url, <<>>)

----------------------------------------------------------------------------
\* Answers of the environment.

None == <<>>
Some(x) == <<x>>

\* References a script response can carry.
MapRef == Rel(<<"app.js.map">>)
XMapRef == Rel(<<"x.map">>)
PragmaRef == Rel(<<"p.map">>)

NoResp == [status |-> "none", sourcemap |-> NoRef, xsourcemap |-> NoRef,
           readable |-> FALSE, pragma |-> NoRef, minified |-> FALSE]

\* api.get_handle_redirect(script): a transport error, a failed status, or a
\* response with its headers and its body (readable or not, with or without
\* a pragma, minified or not).
ScriptResponses ==
    {[NoResp EXCEPT !.status = "err"], [NoResp EXCEPT !.status = "failed"]}
      \cup {[status |-> "ok", sourcemap |-> h, xsourcemap |-> x,
             readable |-> FALSE, pragma |-> NoRef, minified |-> FALSE] :
               h \in {NoRef, MapRef}, x \in {NoRef, XMapRef}}
      \cup {[status |-> "ok", sourcemap |-> h, xsourcemap |-> x,
             readable |-> TRUE, pragma |-> p, minified |-> m] :
               h \in {NoRef, MapRef}, x \in {NoRef, XMapRef},
               p \in {NoRef, PragmaRef, BadRef}, m \in BOOLEAN}

\* One entry of sourcemap.source_contents() with its get_source(idx).
SourceRef == Rel(<<"src", "app.ts">>)
SourceEntries ==
    {[content |-> TRUE, source |-> SourceRef],
     [content |-> FALSE, source |-> SourceRef],
     [content |-> FALSE, source |-> NoRef],
     [content |-> FALSE, source |-> BadRef]}

\* api.get_handle_redirect(sourcemap): transport error, failed status, or a
\* body that is unreadable, not a sourcemap, undecodable, an index that does
\* not flatten, or a regular / flattened index map with its source entries.
SmResponses ==
    {[status |-> s, body |-> "", entries |-> <<>>] : s \in {"err", "failed"}}
      \cup {[status |-> "ok", body |-> b, entries |-> <<>>] :
              b \in {"unreadable", "notmap", "undecodable", "index_unsupported"}}
      \cup {[status |-> "ok", body |-> b, entries |-> e] :
              b \in {"regular", "index"},
              e \in SeqsUpTo(SourceEntries, MaxSources)}

\* api.head(source): transport error, non-2xx, 2xx.
HeadResults == {"err", "failed", "ok"}

\* The page response: transport error, failed status, unparsable body, or a
\* parsed document.
PageResponses ==
    {[status |-> s, html |-> DocumentNode(<<>>)] :
        s \in {"err", "failed", "unparsable"}}
      \cup {[status |-> "ok", html |-> d] : d \in Documents}

\* What walkdir can yield below the working directory: readable paths
\* (relative to the working directory) and an unreadable entry.
DirPaths == {<<"dist", "app.js">>, <<"dist", "app.js.map">>, <<"README">>}
DirEntries ==
    {[ok |-> TRUE, path |-> p] : p \in DirPaths}
      \cup {[ok |-> FALSE, path |-> <<>>]}

----------------------------------------------------------------------------
\* Pure pieces of execute, validate_sourcemap and explain_upload_commands.

Get(url, s) == [method |-> "GET", url |-> url, script |-> s, entry |-> 0]
HeadReq(url, s, e) == [method |-> "HEAD", url |-> url, script |-> s, entry |-> e]

\* Lines 201-203: the `sourcemap` header, or else `x-sourcemap`.
HeaderRef(r) ==
    IF r.sourcemap.kind # "none" THEN r.sourcemap ELSE r.xsourcemap

\* Lines 201-208 with the two headers looked up in the wrong order.
SmRefUrl_xfirst(r) ==
    IF r.xsourcemap.kind # "none" THEN r.xsourcemap
    ELSE IF r.sourcemap.kind # "none" THEN r.sourcemap ELSE r.pragma

\* Lines 201-208: the header reference, or else the pragma of the body.
SmRefUrl(r) ==
    IF HeaderRef(r).kind # "none" THEN HeaderRef(r) ELSE r.pragma

\* Line 210.
NeedsSourcemap(ref, r) == ref.kind # "none" \/ r.minified

\* Lines 218-219 without the increment.
OnBrokenReference_nocount(sms, missing, script, sm) ==
    [sourcemaps |-> Append(sms, <<script, Some(sm), FALSE>>),
     missing |-> missing]

\* Lines 218-219.
OnBrokenReference(sms, missing, script, sm) ==
    [sourcemaps |-> Append(sms, <<script, Some(sm), FALSE>>),
     missing |-> missing + 1]

\* Line 230 pushing the candidate twice.
OnFetched_twice(sms, missing, script, sm) ==
    [sourcemaps |-> Append(Append(sms, <<script, Some(sm), TRUE>>),
                           <<script, Some(sm), TRUE>>),
     missing |-> missing]

\* Line 230.
OnFetched(sms, missing, script, sm) ==
    [sourcemaps |-> Append(sms, <<script, Some(sm), TRUE>>),
     missing |-> missing]

\* Lines 234-235 without the push.
OnMissingReference_nopush(sms, missing, script) ==
    [sourcemaps |-> sms, missing |-> missing + 1]

\* Lines 234-235.
OnMissingReference(sms, missing, script) ==
    [sourcemaps |-> Append(sms, <<script, None, FALSE>>),
     missing |-> missing + 1]

\* Lines 95-96 without the test of the embedded content.
NeedsHead_anycontent(e) == e.source.kind # "none"

\* Lines 95-96: no embedded content and a source reference.
NeedsHead(e) == ~e.content /\ e.source.kind # "none"

\* Lines 124 and 128: the last segment of the URL's path.
FileName(url) == url.path[Len(url.path)]

\* Lines 122-125.
known_js_files(sms) == {FileName(sms[k][1]) : k \in 1..Len(sms)}

\* Lines 126-129.
known_sm_files(sms) ==
    {FileName(sms[k][2][1]) : k \in {n \in 1..Len(sms) : sms[n][2] # None}}

\* Lines 136-141: the entry has a file name that is known.
IsInteresting(path, sms) ==
    /\ Len(path) > 0
    /\ \/ path[Len(path)] \in known_js_files(sms)
       \/ path[Len(path)] \in known_sm_files(sms)

\* Line 253 guarded by the missing count as well.
ShouldExplain_onlymissing(sms, missing) == missing > 0 /\ sms # <<>>

\* Line 253.
ShouldExplain(sms, missing) == sms # <<>>

\* Lines 242-251: which summary is printed.
SummaryOf(sms, missing) ==
    IF missing > 0 THEN "missing"
    ELSE IF sms # <<>> THEN "none_optional" ELSE "none"

\* The outcome printed for a script (lines 187-188, 195, 214-221, 233, 238),
\* from what the script and the sourcemap requests returned.
Outcome(cdn, r, sm) ==
    IF cdn THEN "Ignored"
    ELSE IF r.status # "ok" THEN "FetchFailed"
    ELSE IF r.sourcemap.kind # "none" \/ r.xsourcemap.kind # "none"
              \/ r.pragma.kind # "none"
         THEN IF sm = "ok" THEN "Valid" ELSE "BrokenReference"
         ELSE IF r.minified THEN "MissingReference" ELSE "Unminified"

----------------------------------------------------------------------------
\* The state of a run of execute.

VARIABLES
    pc,                   \* position of the run
    err,                  \* the error the run returned, "none" while it has none
    scripts,              \* find_scripts' result (line 173)
    i,                    \* position of the analysis loop in scripts (line 184)
    sourcemaps,           \* the candidates pushed so far (line 180)
    missing_sourcemaps,   \* line 181
    resp,                 \* the script's response (line 192), until line 215
    sm_url,               \* line 212
    sourcemap,            \* source entries of the map being validated (line 73)
    idx,                  \* position of validate_sourcemap's loop (line 93)
    verr,                 \* validate_sourcemap returned an error (line 224)
    requests,             \* every request sent to the Api, in order
    outcomes,             \* the outcome printed for each script, in order
    report,               \* the summary printed (lines 242-251)
    explained,            \* explain_upload_commands was called (line 254)
    interesting_folders,  \* line 132
    walked                \* the readable paths the walk has yielded

vars == <<pc, err, scripts, i, sourcemaps, missing_sourcemaps, resp, sm_url,
          sourcemap, idx, verr, requests, outcomes, report, explained,
          interesting_folders, walked>>

Init ==
    /\ pc = "start"
    /\ err = "none"
    /\ scripts = <<>>
    /\ i = 1
    /\ sourcemaps = <<>>
    /\ missing_sourcemaps = 0
    /\ resp = NoResp
    /\ sm_url = NoUrl
    /\ sourcemap = <<>>
    /\ idx = 1
    /\ verr = FALSE
    /\ requests = <<>>
    /\ outcomes = <<>>
    /\ report = "none_yet"
    /\ explained = FALSE
    /\ interesting_folders = {}
    /\ walked = {}

\* A `?` that returns the error from execute.
Fail(e) == pc' = "failed" /\ err' = e

\* The end of one iteration of the analysis loop: its locals are dropped.
NextScript ==
    /\ pc' = "loop"
    /\ i' = i + 1
    /\ resp' = NoResp
    /\ sm_url' = NoUrl
    /\ sourcemap' = <<>>
    /\ idx' = 1
    /\ verr' = FALSE

Locals == <<resp, sm_url, sourcemap, idx, verr>>
Summary == <<report, explained, interesting_folders, walked>>

\* Lines 167-178: fetch the page, parse it and extract the scripts.  The base
\* of the joins is the response's final URL, here the page URL itself.
FetchPage ==
    /\ pc = "start"
    /\ \E r \in PageResponses :
         /\ requests' = Append(requests, Get(PageUrl, 0))
         /\ IF r.status = "err" THEN Fail("PageFetch") /\ UNCHANGED scripts
            ELSE IF r.status = "failed"
                 THEN Fail("PageStatus") /\ UNCHANGED scripts
            ELSE IF r.status = "unparsable"
                 THEN Fail("ParseHtml") /\ UNCHANGED scripts
            ELSE LET found == find_scripts(PageUrl, r.html)
                 IN  IF found.ok
                     THEN /\ scripts' = found.rv
                          /\ pc' = "loop"
                          /\ UNCHANGED err
                     ELSE Fail("FindScripts") /\ UNCHANGED scripts
    /\ UNCHANGED <<i, sourcemaps, missing_sourcemaps, outcomes>>
    /\ UNCHANGED Locals
    /\ UNCHANGED Summary

\* Lines 186-190: a community CDN script is skipped.
IgnoreCdnScript ==
    /\ pc = "loop"
    /\ i <= Len(scripts)
    /\ is_community_cdn_url(scripts[i])
    /\ NextScript
    /\ outcomes' = Append(outcomes, Outcome(TRUE, NoResp, "none"))
    /\ UNCHANGED <<err, scripts, sourcemaps, missing_sourcemaps, requests>>
    /\ UNCHANGED Summary

\* Lines 192-214 and 232-239: fetch the script, find its sourcemap reference
\* and decide what to do with it.
FetchScript ==
    /\ pc = "loop"
    /\ i <= Len(scripts)
    /\ ~is_community_cdn_url(scripts[i])
    /\ \E r \in ScriptResponses :
         LET sm_ref_url == SmRefUrl(r)
             joined == UrlJoin(scripts[i], sm_ref_url)
             pushed == OnMissingReference(sourcemaps, missing_sourcemaps,
                                          scripts[i])
         IN
         /\ requests' = Append(requests, Get(scripts[i], i))
         /\ IF r.status = "err"
            THEN /\ Fail("ScriptFetch")
                 /\ UNCHANGED <<i, sourcemaps, missing_sourcemaps, outcomes>>
                 /\ UNCHANGED Locals
            ELSE IF r.status = "failed"
            THEN /\ NextScript
                 /\ outcomes' = Append(outcomes, Outcome(FALSE, r, "none"))
                 /\ UNCHANGED <<err, sourcemaps, missing_sourcemaps>>
            ELSE IF ~r.readable
            THEN /\ Fail("ScriptBody")
                 /\ UNCHANGED <<i, sourcemaps, missing_sourcemaps, outcomes>>
                 /\ UNCHANGED Locals
            ELSE IF ~NeedsSourcemap(sm_ref_url, r)
            THEN /\ NextScript
                 /\ outcomes' = Append(outcomes, Outcome(FALSE, r, "none"))
                 /\ UNCHANGED <<err, sourcemaps, missing_sourcemaps>>
            ELSE IF sm_ref_url.kind = "none"
            THEN /\ NextScript
                 /\ sourcemaps' = pushed.sourcemaps
                 /\ missing_sourcemaps' = pushed.missing
                 /\ outcomes' = Append(outcomes, Outcome(FALSE, r, "none"))
                 /\ UNCHANGED err
            ELSE IF ~joined.ok
            THEN /\ Fail("SourcemapUrl")
                 /\ UNCHANGED <<i, sourcemaps, missing_sourcemaps, outcomes>>
                 /\ UNCHANGED Locals
            ELSE /\ pc' = "fetch_sm"
                 /\ resp' = r
                 /\ sm_url' = joined.url
                 /\ UNCHANGED <<err, i, sourcemaps, missing_sourcemaps,
                                outcomes, sourcemap, idx, verr>>
    /\ UNCHANGED scripts
    /\ UNCHANGED Summary

\* Lines 215-223 and 227-230: fetch the sourcemap; a failed status is a
\* broken reference, a body that is no sourcemap is pushed as fetched, any
\* other body goes to validate_sourcemap (lines 73-88).
FetchSourcemap ==
    /\ pc = "fetch_sm"
    /\ \E r \in SmResponses :
         LET broken == OnBrokenReference(sourcemaps, missing_sourcemaps,
                                         scripts[i], sm_url)
             fetched == OnFetched(sourcemaps, missing_sourcemaps,
                                  scripts[i], sm_url)
         IN
         /\ requests' = Append(requests, Get(sm_url, i))
         /\ IF r.status = "err"
            THEN /\ Fail("SourcemapFetch")
                 /\ UNCHANGED <<i, sourcemaps, missing_sourcemaps, outcomes>>
                 /\ UNCHANGED Locals
            ELSE IF r.status = "failed"
            THEN /\ NextScript
                 /\ sourcemaps' = broken.sourcemaps
                 /\ missing_sourcemaps' = broken.missing
                 /\ outcomes' = Append(outcomes, Outcome(FALSE, resp, "failed"))
                 /\ UNCHANGED err
            ELSE IF r.body = "unreadable"
            THEN /\ Fail("SourcemapBody")
                 /\ UNCHANGED <<i, sourcemaps, missing_sourcemaps, outcomes>>
                 /\ UNCHANGED Locals
            ELSE IF r.body = "notmap"
            THEN /\ NextScript
                 /\ sourcemaps' = fetched.sourcemaps
                 /\ missing_sourcemaps' = fetched.missing
                 /\ outcomes' = Append(outcomes, Outcome(FALSE, resp, "ok"))
                 /\ UNCHANGED err
            ELSE /\ outcomes' = Append(outcomes, Outcome(FALSE, resp, "ok"))
                 /\ resp' = NoResp
                 /\ sourcemap' = r.entries
                 /\ idx' = 1
                 /\ verr' = (r.body \in {"undecodable", "index_unsupported"})
                 /\ pc' = IF r.body \in {"undecodable", "index_unsupported"}
                          THEN "validated" ELSE "validate"
                 /\ UNCHANGED <<err, i, sourcemaps, missing_sourcemaps, sm_url>>
    /\ UNCHANGED scripts
    /\ UNCHANGED Summary

\* Lines 93-114: one source entry of the map.
ValidateEntry ==
    /\ pc = "validate"
    /\ idx <= Len(sourcemap)
    /\ LET e == sourcemap[idx]
           sourcecode_url == UrlJoin(sm_url, e.source)
       IN  IF ~NeedsHead(e)
           THEN idx' = idx + 1 /\ UNCHANGED <<pc, verr, requests>>
           ELSE IF ~sourcecode_url.ok
           THEN pc' = "validated" /\ verr' = TRUE /\ UNCHANGED <<idx, requests>>
           ELSE \E h \in HeadResults :
                  /\ requests' = Append(requests,
                                        HeadReq(sourcecode_url.url, i, idx))
                  /\ IF h = "err"
                     THEN pc' = "validated" /\ verr' = TRUE /\ UNCHANGED idx
                     ELSE idx' = idx + 1 /\ UNCHANGED <<pc, verr>>
    /\ UNCHANGED <<err, scripts, i, sourcemaps, missing_sourcemaps, resp,
                   sm_url, sourcemap, outcomes>>
    /\ UNCHANGED Summary

\* Line 116: the loop is over, validate_sourcemap returns Ok.
ValidateReturn ==
    /\ pc = "validate"
    /\ idx > Len(sourcemap)
    /\ pc' = "validated"
    /\ UNCHANGED <<err, scripts, i, sourcemaps, missing_sourcemaps, resp,
                   sm_url, sourcemap, idx, verr, requests, outcomes>>
    /\ UNCHANGED Summary

\* Lines 224-230: whatever validate_sourcemap returned, the candidate is
\* pushed and the loop goes on.
AfterValidate ==
    /\ pc = "validated"
    /\ LET fetched == OnFetched(sourcemaps, missing_sourcemaps,
                                scripts[i], sm_url)
       IN  /\ sourcemaps' = fetched.sourcemaps
           /\ missing_sourcemaps' = fetched.missing
    /\ NextScript
    /\ UNCHANGED <<err, scripts, requests, outcomes>>
    /\ UNCHANGED Summary

\* Lines 242-255 and 131: the summary, then explain_upload_commands if
\* there is anything to explain; env::current_dir can fail.
Summarize ==
    /\ pc = "loop"
    /\ i > Len(scripts)
    /\ report' = SummaryOf(sourcemaps, missing_sourcemaps)
    /\ IF ShouldExplain(sourcemaps, missing_sourcemaps)
       THEN /\ explained' = TRUE
            /\ \E here_ok \in BOOLEAN :
                 IF here_ok THEN pc' = "walk" /\ UNCHANGED err
                 ELSE Fail("CurrentDir")
       ELSE pc' = "done" /\ UNCHANGED <<err, explained>>
    /\ UNCHANGED <<scripts, i, sourcemaps, missing_sourcemaps, requests,
                   outcomes, interesting_folders, walked>>
    /\ UNCHANGED Locals

\* Lines 134-146: the next directory entry; an error entry is returned from
\* the function by `dent_rv?`.
WalkEntry ==
    /\ pc = "walk"
    /\ Cardinality(walked) < MaxEntries
    /\ \E d \in DirEntries :
         IF ~d.ok
         THEN Fail("Walk") /\ UNCHANGED <<interesting_folders, walked>>
         ELSE /\ d.path \notin walked
              /\ walked' = walked \cup {d.path}
              /\ interesting_folders' =
                   IF IsInteresting(d.path, sourcemaps)
                   THEN interesting_folders \cup {Front(d.path)}
                   ELSE interesting_folders
              /\ UNCHANGED <<pc, err>>
    /\ UNCHANGED <<scripts, i, sourcemaps, missing_sourcemaps, requests,
                   outcomes, report, explained>>
    /\ UNCHANGED Locals

\* Lines 148-157: the walk is over, the folders and the candidates are
\* printed and execute returns Ok.
WalkDone ==
    /\ pc = "walk"
    /\ pc' = "done"
    /\ UNCHANGED <<err, scripts, i, sourcemaps, missing_sourcemaps, requests,
                   outcomes, report, explained, interesting_folders, walked>>
    /\ UNCHANGED Locals

Next ==
    \/ FetchPage
    \/ IgnoreCdnScript
    \/ FetchScript
    \/ FetchSourcemap
    \/ ValidateEntry
    \/ ValidateReturn
    \/ AfterValidate
    \/ Summarize
    \/ WalkEntry
    \/ WalkDone

Spec == Init /\ [][Next]_vars

----------------------------------------------------------------------------
\* Properties.

\* The five allowlisted community CDN hosts.
CommunityCdnHosts ==
    {"ssl.google-analytics.com", "cdn.js.com", "ajax.googleapis.com",
     "cdn.ravenjs.com", "cdn.jsdelivr.net"}

Last(s) == s[Len(s)]

\* The analysis loop has run to its end.
LoopDone == report # "none_yet" \/ (pc = "loop" /\ i > Len(scripts))

\* The outcomes that put a script on the candidate list.
ListedOutcomes == {"MissingReference", "BrokenReference", "Valid"}

\* The scripts among the first n whose outcome is a listed one, in order.
RECURSIVE ListedScripts(_)
ListedScripts(n) ==
    IF n = 0 THEN <<>>
    ELSE IF outcomes[n] \in ListedOutcomes
         THEN Append(ListedScripts(n - 1), scripts[n])
         ELSE ListedScripts(n - 1)

\* The non-CDN scripts among the first n, in order.
RECURSIVE NonCdnScripts(_)
NonCdnScripts(n) ==
    IF n = 0 THEN <<>>
    ELSE IF scripts[n].host \notin CommunityCdnHosts
         THEN Append(NonCdnScripts(n - 1), scripts[n])
         ELSE NonCdnScripts(n - 1)

\* The script URLs of the first n candidates, in order.
RECURSIVE CandidateScripts(_)
CandidateScripts(n) ==
    IF n = 0 THEN <<>>
    ELSE Append(CandidateScripts(n - 1), sourcemaps[n][1])

\* C1: a step of the analysis loop on a script whose host is one of the five
\* allowlisted CDN hosts sends no request, leaves the missing count and the
\* candidate list as they are and moves the loop to the next script.
C1_CdnScriptSkipped ==
    [][(pc = "loop" /\ i <= Len(scripts)
          /\ scripts[i].host \in CommunityCdnHosts)
        => /\ requests' = requests
           /\ missing_sourcemaps' = missing_sourcemaps
           /\ sourcemaps' = sourcemaps
           /\ pc' = "loop"
           /\ i' = i + 1]_vars

\* A CDN script has been skipped and the loop stands at the next script.
C1_Witness ==
    /\ pc = "loop"
    /\ i > 1
    /\ i <= Len(scripts)
    /\ scripts[i - 1].host \in CommunityCdnHosts
    /\ outcomes[i - 1] = "Ignored"

\* C2 (as claimed): once the page is fetched and parsed, no error stops the
\* run with a failure; a failed run failed on the page fetch or parse.
C2_OnlyPageErrorsFatal ==
    pc = "failed" => err \in {"PageFetch", "PageStatus", "ParseHtml"}

\* The reference the resolver is to return: the `sourcemap` header, else the
\* `x-sourcemap` header, else the pragma of the body.
DeclaredRef(r) ==
    IF r.sourcemap.kind # "none" THEN r.sourcemap
    ELSE IF r.xsourcemap.kind # "none" THEN r.xsourcemap
    ELSE r.pragma

\* C3: the sourcemap URL that is fetched for a script is the declared
\* reference (sourcemap header, else x-sourcemap header, else body pragma)
\* joined against the script's own URL.
C3_SourcemapUrlFromScript ==
    [][pc = "fetch_sm"
        => /\ Last(requests').method = "GET"
           /\ Last(requests').url
                = UrlJoin(scripts[i], DeclaredRef(resp)).url
           /\ Len(requests') = Len(requests) + 1]_vars

\* A script without header whose pragma is about to be fetched from a URL
\* next to the script, which is not the URL next to the page.
C3_Witness ==
    /\ pc = "fetch_sm"
    /\ resp.sourcemap.kind = "none"
    /\ resp.xsourcemap.kind = "none"
    /\ resp.pragma = PragmaRef
    /\ sm_url = Url("example.com", <<"static", "p.map">>)
    /\ sm_url # UrlJoin(PageUrl, PragmaRef).url

\* C4: the missing count is the number of scripts whose outcome is
\* MissingReference or BrokenReference.
C4_MissingCount ==
    missing_sourcemaps =
        Cardinality({k \in 1..Len(outcomes) :
                       outcomes[k] \in {"MissingReference", "BrokenReference"}})

\* A finished run with one script of each counted outcome.
C4_Witness ==
    /\ pc = "done"
    /\ outcomes = <<"MissingReference", "BrokenReference">>
    /\ missing_sourcemaps = 2

\* C5 (as claimed): at the end of the loop the candidate list has one entry
\* for every script that is not CDN-ignored, in document order.
C5_OnePerNonCdnScript ==
    LoopDone => CandidateScripts(Len(sourcemaps)) = NonCdnScripts(Len(scripts))

\* C5 (amended): the candidate list has one entry for every processed script
\* whose outcome is MissingReference, BrokenReference or Valid, in document
\* order, and none for any other script.
C5_OnePerListedScript ==
    pc # "start" => CandidateScripts(Len(sourcemaps)) = ListedScripts(i - 1)

\* The loop is over, one non-CDN script is on the list and another is not.
C5_Witness ==
    /\ LoopDone
    /\ Len(sourcemaps) = 1
    /\ \E k \in 1..Len(scripts) :
         /\ scripts[k].host \notin CommunityCdnHosts
         /\ outcomes[k] \in {"FetchFailed", "Unminified"}

\* C6 (as claimed): no two candidates have the same script URL.
C6_OnePerDistinctUrl ==
    \A a, b \in 1..Len(sourcemaps) :
        sourcemaps[a][1] = sourcemaps[b][1] => a = b

\* C6 (amended): every processed script tag has exactly one outcome, and a
\* script URL has at most as many candidates as processed tags that carry it.
C6_OnePerTag ==
    /\ pc # "start" => Len(outcomes) \in {i - 1, i}
    /\ LoopDone => Len(outcomes) = Len(scripts)
    /\ \A a \in 1..Len(sourcemaps) :
         Cardinality({b \in 1..Len(sourcemaps) :
                        sourcemaps[b][1] = sourcemaps[a][1]})
           <= Cardinality({k \in 1..(i - 1) : scripts[k] = sourcemaps[a][1]})

\* Two tags with the same src, each with its own candidate.
C6_Witness ==
    /\ LoopDone
    /\ Len(scripts) = 2
    /\ scripts[1] = scripts[2]
    /\ Len(sourcemaps) = 2

\* C7: every HEAD request of the validation in progress is for an entry
\* without embedded content whose source reference is present, and no entry
\* of any map gets two HEAD requests.
C7_HeadOnlyWithoutContent ==
    /\ \A k \in 1..Len(requests) :
         (requests[k].method = "HEAD" /\ requests[k].script = i
            /\ pc \in {"validate", "validated"})
           => /\ requests[k].entry \in 1..Len(sourcemap)
              /\ ~sourcemap[requests[k].entry].content
              /\ sourcemap[requests[k].entry].source.kind # "none"
    /\ \A k, n \in 1..Len(requests) :
         (requests[k].method = "HEAD" /\ requests[n].method = "HEAD"
            /\ requests[k].script = requests[n].script
            /\ requests[k].entry = requests[n].entry)
           => k = n

\* A validated map with an entry that has content and one that got a HEAD.
C7_Witness ==
    /\ pc = "validated"
    /\ ~verr
    /\ \E j \in 1..Len(sourcemap) : sourcemap[j].content
    /\ \E k \in 1..Len(requests) :
         requests[k].method = "HEAD" /\ requests[k].script = i

\* C8 (as claimed): when validate_sourcemap is over, every source entry
\* without embedded content has been examined.
C8_EveryEntryExamined ==
    pc = "validated"
      => \A j \in 1..Len(sourcemap) :
           ~sourcemap[j].content => (j < idx \/ (verr /\ j = idx))

\* C9 (as claimed): an unreadable entry does not fail the run, and the
\* candidate folders are the parents of the readable entries with a known
\* name.
C9_WalkErrorSkipped ==
    explained
      => /\ err # "Walk"
         /\ interesting_folders
              = {Front(p) : p \in {q \in walked : IsInteresting(q, sourcemaps)}}

\* C10 (as claimed): the correlator is invoked exactly when the missing count
\* is positive and there are candidates.
C10_ExplainOnlyWhenMissing ==
    report # "none_yet"
      => (explained <=> (missing_sourcemaps > 0 /\ sourcemaps # <<>>))

\* C10 (amended): the correlator is invoked exactly when the candidate list
\* is non-empty, whatever the missing count; with a missing count of 0 the
\* success message is printed, with the optional uploads if any are listed.
C10_ExplainWhenCandidates ==
    report # "none_yet"
      => /\ explained <=> sourcemaps # <<>>
         /\ missing_sourcemaps > 0 => report = "missing"
         /\ (missing_sourcemaps = 0 /\ sourcemaps # <<>>)
              => report = "none_optional"
         /\ (missing_sourcemaps = 0 /\ sourcemaps = <<>>) => report = "none"

\* Nothing is missing, a fetched sourcemap is listed and the walk has begun.
C10_Witness ==
    /\ report = "none_optional"
    /\ missing_sourcemaps = 0
    /\ explained
    /\ walked # {}

====
